---- MODULE Spec2Model ----
(***************************************************************************)
(* A model of src/converter.js: convertSchemas, the Drizzle-to-TypeORM      *)
(* schema converter (entity registry, column extractor, table extras,       *)
(* relation collector, relation resolver, emitter).                         *)
(*                                                                          *)
(* The TypeScript syntax tree is abstracted to the node shapes the code     *)
(* tests (isStr, isNum, isObj, isArr, ts.isCallExpression, ...).  Strings   *)
(* that pass through a conversion (snakeToPascal, pascal, toSnake) are      *)
(* sequences of one-character strings, so the conversions are computed.     *)
(***************************************************************************)
EXTENDS Integers, Sequences, FiniteSets, TLC

(***************************************************************************)
(* Characters and the string conversions                                   *)
(***************************************************************************)
\* the letters of the modelled identifiers, lower case and upper case
Lowers == <<"a", "c", "d", "e", "g", "i", "p", "r", "t", "u", "x">>

Uppers == <<"A", "C", "D", "E", "G", "I", "P", "R", "T", "U", "X">>

LowerChars == {Lowers[k] : k \in 1..Len(Lowers)}

UpperChars == {Uppers[k] : k \in 1..Len(Uppers)}

\* String.prototype.toUpperCase on one character
toUpperCase(c) ==
  IF c \in LowerChars THEN Uppers[CHOOSE k \in 1..Len(Lowers) : Lowers[k] = c] ELSE c

\* String.prototype.toLowerCase on one character
toLowerCase(c) ==
  IF c \in UpperChars THEN Lowers[CHOOSE k \in 1..Len(Uppers) : Uppers[k] = c] ELSE c

\* the value `undefined` used as an object key or entity name: JS coerces it
\* to the property name "undefined", which no one-character string equals
Undefined == <<"undefined">>

RECURSIVE StripLeading(_)
\* .replace(/^_+/, "")
StripLeading(s) ==
  IF s # <<>> /\ Head(s) = "_" THEN StripLeading(Tail(s)) ELSE s

RECURSIVE StripTrailing(_)
\* .replace(/_+$/, "")
StripTrailing(s) ==
  IF s # <<>> /\ s[Len(s)] = "_" THEN StripTrailing(SubSeq(s, 1, Len(s) - 1)) ELSE s

RECURSIVE SplitAcc(_, _)
SplitAcc(s, cur) ==
  IF s = <<>> THEN <<cur>>
  ELSE IF Head(s) = "_" THEN <<cur>> \o SplitAcc(Tail(s), <<>>)
  ELSE SplitAcc(Tail(s), Append(cur, Head(s)))

\* .split("_")
Split(s) == SplitAcc(s, <<>>)

RECURSIVE Join(_)
\* .join("")
Join(ws) == IF ws = <<>> THEN <<>> ELSE Head(ws) \o Join(Tail(ws))

\* w[0].toUpperCase() + w.slice(1), for a non-empty w
Capitalize(w) == <<toUpperCase(w[1])>> \o Tail(w)

\* snakeToPascal: strip, split on "_", drop empty words, capitalise, join
snakeToPascal(s) ==
  LET words == SelectSeq(Split(StripTrailing(StripLeading(s))), LAMBDA w : w # <<>>)
  IN  Join([k \in 1..Len(words) |-> Capitalize(words[k])])

\* pascal: upper-case the first character only
pascal(w) == IF w = <<>> THEN <<>> ELSE Capitalize(w)

RECURSIVE InsertUnderscores(_)
\* .replace(/([a-z])([A-Z])/g, "$1_$2"): a match consumes both characters
InsertUnderscores(s) ==
  IF Len(s) < 2 THEN s
  ELSE IF s[1] \in LowerChars /\ s[2] \in UpperChars
       THEN <<s[1], "_", s[2]>> \o InsertUnderscores(SubSeq(s, 3, Len(s)))
       ELSE <<s[1]>> \o InsertUnderscores(Tail(s))

\* toSnake (declared inside the relation collector)
toSnake(s) ==
  LET t == InsertUnderscores(s) IN [k \in 1..Len(t) |-> toLowerCase(t[k])]

(***************************************************************************)
(* Column extractor: getColumn                                             *)
(*                                                                          *)
(* An initializer is  [shape |-> "other"]  (not a call expression) or       *)
(*   [shape |-> "chain", rootCall, builder, nameArg, opts, mods]            *)
(* where mods are the chained method calls in SOURCE order (mods[1] is the  *)
(* call adjacent to the root), rootCall says whether the chain bottoms out  *)
(* in a call expression (varchar("x")...) or in something else              *)
(* (t.varchar("x")...), builder is root.expression.escapedText ("" when it  *)
(* is undefined).                                                           *)
(***************************************************************************)
TypeNames == {"uuid", "varchar", "char", "text", "bigint", "int", "smallint",
              "numeric", "decimal", "float", "double", "boolean", "timestamp",
              "timestamptz", "date", "time", "json", "jsonb", "geometry",
              "geography"}

\* typeMap
typeMap(x) == IF x = "integer" THEN "int" ELSE IF x \in TypeNames THEN x ELSE ""

\* toType: typeMap[x] || "text"
toType(x) == IF typeMap(x) # "" THEN typeMap(x) ELSE "text"

\* an absent argument / a value that is no recognised literal
\* kind, a number literal's value, a template's text, and the characters of a
\* string literal or of the identifier an arrow body reads
NoArg == [kind |-> "none", num |-> 0, text |-> "", chars |-> <<>>]

NumArg(n) == [NoArg EXCEPT !.kind = "num", !.num = n]

StrArg(s) == [NoArg EXCEPT !.kind = "str", !.chars = s]

TrueArg == [NoArg EXCEPT !.kind = "true"]

FalseArg == [NoArg EXCEPT !.kind = "false"]

\* sql`...` with the given template text
SqlArg(s) == [NoArg EXCEPT !.kind = "sql", !.text = s]

\* () => v.prop : an arrow function whose body is a property access on v
ArrowArg(v) == [NoArg EXCEPT !.kind = "arrow", !.chars = v]

\* any other expression (an identifier, a call, an arrow with a block body)
OtherArg == [NoArg EXCEPT !.kind = "other"]

\* template texts that /current_timestamp/i matches
CurrentTimestampTexts == {"CURRENT_TIMESTAMP", "current_timestamp", "(Current_Timestamp)"}

\* col.default: absent/undefined, a number, a (quoted) string, a boolean
NoDefault == [t |-> "undefined", n |-> 0, s |-> <<>>, b |-> FALSE]

NumDefault(n) == [NoDefault EXCEPT !.t = "num", !.n = n]

\* `'${text}'`
QuotedDefault(s) == [NoDefault EXCEPT !.t = "quoted", !.s = s]

BoolDefault(b) == [NoDefault EXCEPT !.t = "bool", !.b = b]

\* unwrapSqlTag
unwrapSqlTag(arg) ==
  IF arg.kind # "sql" THEN ""
  ELSE IF arg.text \in CurrentTimestampTexts THEN "CURRENT_TIMESTAMP" ELSE ""

\* overrideDefaultIfSqlTagged: the quoted marker, or undefined (NoDefault)
overrideDefaultIfSqlTagged(arg) ==
  IF unwrapSqlTag(arg) # "" THEN QuotedDefault(<<unwrapSqlTag(arg)>>) ELSE NoDefault

\* const col = { type: "text", nullable: true }; absent fields hold their
\* falsy/empty value (FALSE, "", <<>>, -1)
NewCol ==
  [type |-> "text", nullable |-> TRUE, name |-> <<>>, primary |-> FALSE,
   unique |-> FALSE, array |-> FALSE, generated |-> "", default |-> NoDefault,
   createDate |-> FALSE, updateDate |-> FALSE, hasEnum |-> FALSE, enum |-> <<>>,
   length |-> -1, precision |-> -1, scale |-> -1,
   referencesVar |-> <<>>, onDelete |-> "", onUpdate |-> "", cascade |-> FALSE]

\* the value of the `default(arg)` case
DefaultValue(arg) ==
  IF overrideDefaultIfSqlTagged(arg) # NoDefault THEN overrideDefaultIfSqlTagged(arg)
  ELSE IF arg.kind = "none" THEN BoolDefault(TRUE)
  ELSE IF arg.kind = "num" THEN NumDefault(arg.num)
  ELSE IF arg.kind = "str" THEN QuotedDefault(arg.chars)
  ELSE IF arg.kind = "true" THEN BoolDefault(TRUE)
  ELSE IF arg.kind = "false" THEN BoolDefault(FALSE)
  ELSE NoDefault

\* no object literal as second argument of references()
NoRefOpts == [isObj |-> FALSE, onDelete |-> "", onUpdate |-> "", cascade |-> FALSE]

\* the object literal given to references(): onDelete / onUpdate strings and
\* cascade: true
applyReferencesOpts(col, o) ==
  [col EXCEPT !.onDelete = IF o.onDelete # "" THEN o.onDelete ELSE @,
              !.onUpdate = IF o.onUpdate # "" THEN o.onUpdate ELSE @,
              !.cascade  = IF o.cascade THEN TRUE ELSE @]

\* the conventional property names
CreatedAt == <<"c", "r", "e", "a", "t", "e", "d", "A", "t">>

UpdatedAt == <<"u", "p", "d", "a", "t", "e", "d", "A", "t">>

\* one iteration of the modifier loop: the switch on method.escapedText
applyModifier(col, m, name) ==
  CASE m.method = "notNull" -> [col EXCEPT !.nullable = FALSE]
    [] m.method = "primaryKey" -> [col EXCEPT !.primary = TRUE, !.nullable = FALSE]
    [] m.method = "unique" -> [col EXCEPT !.unique = TRUE]
    [] m.method = "array" -> [col EXCEPT !.array = TRUE]
    [] m.method = "$onUpdate" -> [col EXCEPT !.updateDate = TRUE]
    [] m.method = "default" -> [col EXCEPT !.default = DefaultValue(m.arg)]
    [] m.method = "defaultRandom" ->
         [col EXCEPT !.generated = "uuid", !.type = "uuid", !.nullable = FALSE]
    [] m.method = "defaultNow" ->
         IF name # CreatedAt THEN [col EXCEPT !.default = BoolDefault(TRUE)] ELSE col
    [] m.method = "references" ->
         LET c1 == IF m.arg.kind = "arrow"
                   THEN [col EXCEPT !.referencesVar = m.arg.chars] ELSE col
         IN  IF m.opts.isObj THEN applyReferencesOpts(c1, m.opts) ELSE c1
    [] OTHER -> col

RECURSIVE applyModifiers(_, _, _, _)
\* the modifier loop: `call` starts at the whole initializer, i.e. at the LAST
\* call of the source chain, and moves inward (call = call.expression.expression)
applyModifiers(col, mods, i, name) ==
  IF i = 0 THEN col
  ELSE applyModifiers(applyModifier(col, mods[i], name), mods, i - 1, name)

\* one property of the builder's options object (second root argument)
applyColumnOpt(col, p) ==
  LET c1 == IF p.k = "length" /\ p.v.kind = "num" THEN [col EXCEPT !.length = p.v.num]
            ELSE IF p.k = "precision" /\ p.v.kind = "num" THEN [col EXCEPT !.precision = p.v.num]
            ELSE IF p.k = "scale" /\ p.v.kind = "num" THEN [col EXCEPT !.scale = p.v.num]
            ELSE col
      c2 == IF p.k = "enum" /\ p.v.kind = "arr"
            THEN [c1 EXCEPT !.hasEnum = TRUE, !.enum = p.v.elems, !.type = "enum"]
            ELSE c1
  IN  IF p.k = "withTimezone" /\ p.v.kind = "true"
      THEN [c2 EXCEPT !.type = "timestamptz"] ELSE c2

RECURSIVE applyColumnOpts(_, _)
applyColumnOpts(col, props) ==
  IF props = <<>> THEN col
  ELSE applyColumnOpts(applyColumnOpt(col, Head(props)), Tail(props))

\* getColumn raises (TypeError: root.arguments is not iterable) when the chain
\* does not bottom out in a call expression
getColumnThrows(init) == init.shape = "chain" /\ ~init.rootCall

\* the naming-convention overrides after the modifier loop
applyConventions(col, name) ==
  LET c1 == IF name = CreatedAt
            THEN [col EXCEPT !.createDate = TRUE, !.nullable = FALSE] ELSE col
  IN  IF name = UpdatedAt THEN [c1 EXCEPT !.updateDate = TRUE] ELSE c1

\* getColumn(init, name), for an initializer on which it does not raise
getColumn(init, name) ==
  IF init.shape # "chain" THEN NewCol
  ELSE
    LET c0 == [NewCol EXCEPT !.type = toType(init.builder)]
        c1 == IF init.nameArg.kind = "str" /\ init.nameArg.chars # name
              THEN [c0 EXCEPT !.name = init.nameArg.chars] ELSE c0
        c2 == IF init.opts.isObj THEN applyColumnOpts(c1, init.opts.props) ELSE c1
        c3 == applyModifiers(c2, init.mods, Len(init.mods), name)
    IN  applyConventions(c3, name)

(***************************************************************************)
(* JavaScript objects used as ordered maps                                 *)
(*                                                                          *)
(* An object is the sequence of its [key, val] entries in the order         *)
(* Object.entries lists them: array-index keys ("0", "7", "12") first, in   *)
(* ascending numeric order, then the other keys in insertion order.         *)
(***************************************************************************)
DigitChars == <<"0", "1", "2", "3", "4", "5", "6", "7", "8", "9">>

IsDigit(c) == \E k \in 1..Len(DigitChars) : DigitChars[k] = c

DigitValue(c) == (CHOOSE k \in 1..Len(DigitChars) : DigitChars[k] = c) - 1

RECURSIVE NumericValue(_)
NumericValue(s) ==
  IF s = <<>> THEN 0
  ELSE NumericValue(SubSeq(s, 1, Len(s) - 1)) * 10 + DigitValue(s[Len(s)])

\* a canonical array index: decimal digits without a leading zero
IsArrayIndex(key) ==
  /\ key # <<>>
  /\ \A k \in 1..Len(key) : IsDigit(key[k])
  /\ (Len(key) > 1 => key[1] # "0")

\* key in obj
ObjHas(obj, key) == \E k \in 1..Len(obj) : obj[k].key = key

\* obj[key], for a key that is present
ObjGet(obj, key) == obj[CHOOSE k \in 1..Len(obj) : obj[k].key = key].val

\* where a new key lands in the enumeration order
InsertPosition(obj, key) ==
  IF IsArrayIndex(key)
  THEN 1 + Cardinality({k \in 1..Len(obj) :
                          IsArrayIndex(obj[k].key)
                          /\ NumericValue(obj[k].key) < NumericValue(key)})
  ELSE Len(obj) + 1

\* obj[key] = val
ObjPut(obj, key, val) ==
  IF ObjHas(obj, key)
  THEN [k \in 1..Len(obj) |-> IF obj[k].key = key THEN [key |-> key, val |-> val] ELSE obj[k]]
  ELSE LET at == InsertPosition(obj, key)
       IN  SubSeq(obj, 1, at - 1) \o <<[key |-> key, val |-> val]>> \o SubSeq(obj, at, Len(obj))

(***************************************************************************)
(* The input and the state of one convertSchemas run                       *)
(*                                                                          *)
(* files: the ordered input; each file has a name and its top-level         *)
(* variable declarations whose initializer is a pgTable(...) call           *)
(*   [kind |-> "table", var, tblArg, cols, extras]                          *)
(* or a relations(...) call                                                 *)
(*   [kind |-> "relations", fromVar, props].                                *)
(***************************************************************************)
VARIABLES
  files,          \* filesInput
  pc,             \* "registry", "extract", "resolve", "emit", "done", "error"
  i,              \* position of the current traversal in the declarations
  var2entity,     \* table variable -> entity name
  entity2file,    \* entity name -> file name
  entityData,     \* entity name -> {tableName, columns, relations, indices}
  relationStubs,  \* the relation stubs, in collection order
  ri,             \* the resolver's position in relationStubs
  pairOf,         \* history: the stub each stub was paired with (0: none)
  ei,             \* the emitter's position in entityData
  fileOutputMap,  \* file name -> rendered schemas
  filesOutput     \* the returned map: output file name -> text

vars == <<files, pc, i, var2entity, entity2file, entityData, relationStubs,
          ri, pairOf, ei, fileOutputMap, filesOutput>>

RECURSIVE Flatten(_)
\* the declarations of all files in traversal order, each with its file
Flatten(fs) ==
  IF fs = <<>> THEN <<>>
  ELSE [k \in 1..Len(Head(fs).decls) |->
          [file |-> Head(fs).fileName, decl |-> Head(fs).decls[k]]] \o Flatten(Tail(fs))

Decls == Flatten(files)

\* is a string literal / is not
StrLit(s) == [isStr |-> TRUE, chars |-> s]

NotStr == [isStr |-> FALSE, chars |-> <<>>]

\* var2entity[v], undefined when v names no table
EntityOfVar(v2e, v) == IF ObjHas(v2e, v) THEN ObjGet(v2e, v) ELSE Undefined

(***************************************************************************)
(* Pass 1: the entity registry                                             *)
(***************************************************************************)
\* the derived entity name of a table declaration
EntityName(d) ==
  IF d.tblArg.isStr THEN snakeToPascal(d.tblArg.chars) ELSE pascal(d.var)

\* one declaration of the first traversal
RegistryStep ==
  /\ pc = "registry"
  /\ i <= Len(Decls)
  /\ LET d == Decls[i].decl
     IN  IF d.kind = "table"
         THEN /\ var2entity' = ObjPut(var2entity, d.var, EntityName(d))
              /\ entity2file' = ObjPut(entity2file, EntityName(d), Decls[i].file)
         ELSE UNCHANGED <<var2entity, entity2file>>
  /\ i' = IF i = Len(Decls) THEN 1 ELSE i + 1
  /\ pc' = IF i = Len(Decls) THEN "extract" ELSE "registry"
  /\ UNCHANGED <<files, entityData, relationStubs, ri, pairOf, ei,
                 fileOutputMap, filesOutput>>

(***************************************************************************)
(* Pass 2, table branch: columns, composite primary key, indices           *)
(*                                                                          *)
(* cols: the properties of the column object, [key, init] in source order.  *)
(* extras: [isArrowArray, elems]: the third argument; each element is a     *)
(* call [marker, name, cols]: primaryKey({columns: cols}) or                *)
(* marker(name).on(cols[1]).on(cols[2])...                                  *)
(***************************************************************************)
NoExtras == [isArrowArray |-> FALSE, elems |-> <<>>]

RECURSIVE ExtractColumns(_, _)
\* columns[p.name] = getColumn(p.initializer, p.name), property by property
ExtractColumns(columns, cols) ==
  IF cols = <<>> THEN columns
  ELSE ExtractColumns(
         ObjPut(columns, Head(cols).key, getColumn(Head(cols).init, Head(cols).key)),
         Tail(cols))

\* some getColumn call of the declaration raises
ColumnsThrow(cols) == \E k \in 1..Len(cols) : getColumnThrows(cols[k].init)

RECURSIVE MarkPrimaryOnly(_, _)
\* a composite primary key that would set the primary flag and leave nullable
\* as it was
MarkPrimaryOnly(columns, names) ==
  IF names = <<>> THEN columns
  ELSE MarkPrimaryOnly(
         [k \in 1..Len(columns) |->
            IF columns[k].key = Head(names)
            THEN [columns[k] EXCEPT !.val.primary = TRUE]
            ELSE columns[k]],
         Tail(names))

RECURSIVE MarkPrimary(_, _)
\* Object.assign(columns[colName], {primary: true, nullable: false}) for
\* every named column that exists
MarkPrimary(columns, names) ==
  IF names = <<>> THEN columns
  ELSE MarkPrimary(
         [k \in 1..Len(columns) |->
            IF columns[k].key = Head(names)
            THEN [columns[k] EXCEPT !.val.primary = TRUE, !.val.nullable = FALSE]
            ELSE columns[k]],
         Tail(names))

RECURSIVE ApplyPrimaryKeys(_, _)
\* the primaryKey(...) elements of the extras array, in order
ApplyPrimaryKeys(columns, elems) ==
  IF elems = <<>> THEN columns
  ELSE ApplyPrimaryKeys(
         IF Head(elems).marker = "primaryKey" THEN MarkPrimary(columns, Head(elems).cols)
         ELSE columns,
         Tail(elems))

Reverse(seq) == [k \in 1..Len(seq) |-> seq[Len(seq) + 1 - k]]

\* the columns of an index entry: the walk starts at the whole expression,
\* i.e. at the LAST .on(...) of the chain, and pushes while moving inward
IndexColumns(on) == Reverse(on)

\* the descriptor pushed for one index(...) / uniqueIndex(...) element
IndexDescriptor(e) ==
  [name |-> e.name, columns |-> IndexColumns(e.cols), unique |-> e.marker = "uniqueIndex"]

RECURSIVE CollectIndices(_)
\* the index descriptors of the extras array, in order
CollectIndices(elems) ==
  IF elems = <<>> THEN <<>>
  ELSE (IF Head(elems).marker \in {"index", "uniqueIndex"}
        THEN <<IndexDescriptor(Head(elems))>> ELSE <<>>) \o CollectIndices(Tail(elems))

\* the local `columns` object of a table declaration once the branch is done
TableColumns(d) ==
  IF d.extras.isArrowArray
  THEN ApplyPrimaryKeys(ExtractColumns(<<>>, d.cols), d.extras.elems)
  ELSE ExtractColumns(<<>>, d.cols)

\* the entity a table declaration resolves to
EntityOfDecl(v2e, d) == EntityOfVar(v2e, d.var)

\* entityData[entName] ??= {tableName, columns, relations: [], indices: []}
\* (the registered object shares `columns`, so it sees the columns and flags
\* filled in afterwards), then the index descriptors are pushed onto
\* entityData[entName].indices, whichever declaration registered it
RegisterEntity(ed, entName, d) ==
  LET indices == IF d.extras.isArrowArray THEN CollectIndices(d.extras.elems) ELSE <<>>
      old == IF ObjHas(ed, entName) THEN ObjGet(ed, entName)
             ELSE [tableName |-> d.tblArg, columns |-> TableColumns(d),
                   relations |-> <<>>, indices |-> <<>>]
  IN  ObjPut(ed, entName, [old EXCEPT !.indices = @ \o indices])

\* where the second traversal goes after declaration i
AfterExtract(k) == IF k = Len(Decls) THEN "resolve" ELSE "extract"

\* one pgTable declaration of the second traversal; a getColumn that raises
\* aborts the run
ExtractTable ==
  /\ pc = "extract"
  /\ i <= Len(Decls)
  /\ Decls[i].decl.kind = "table"
  /\ LET d == Decls[i].decl
     IN  IF ColumnsThrow(d.cols)
         THEN /\ pc' = "error"
              /\ UNCHANGED <<i, entityData>>
         ELSE /\ entityData' = RegisterEntity(entityData, EntityOfDecl(var2entity, d), d)
              /\ i' = i + 1
              /\ pc' = AfterExtract(i)
  /\ ri' = 1
  /\ UNCHANGED <<files, var2entity, entity2file, relationStubs, pairOf, ei,
                 fileOutputMap, filesOutput>>

(***************************************************************************)
(* Pass 2, relations branch: the relation collector                        *)
(*                                                                          *)
(* props: the properties of the returned object literal, each               *)
(*   [localName, kind, targVar, opts]  for  localName: kind(targVar, opts)  *)
(* opts: [isObj, fields, fieldProp, relationName, onDelete, onUpdate,       *)
(*        cascade]; fields is "array" when a `fields: [...]` property is    *)
(* there, fieldProp the property name of its first element (<<>>: none).    *)
(***************************************************************************)
NoOpts ==
  [isObj |-> FALSE, fields |-> "absent", fieldProp |-> <<>>, relationName |-> "",
   onDelete |-> "", onUpdate |-> "", cascade |-> FALSE]

\* the relType a declaration starts with
InitialRelType(kind, opts) ==
  IF kind = "many" THEN "one-to-many"
  ELSE IF kind = "one"
       THEN (IF opts.isObj /\ opts.fields = "array" THEN "many-to-one" ELSE "one-to-one")
  ELSE IF kind = "oneToOne" THEN "one-to-one"
  ELSE "many-to-one"

\* entityData[ent]?.columns || {}
ColumnsOf(ed, ent) == IF ObjHas(ed, ent) THEN ObjGet(ed, ent).columns ELSE <<>>

\* foreign-key discovery: the first column of the target entity, in
\* declaration order, whose referencesVar is the source variable (<<>>: none)
DiscoverForeignKey(ed, toEntity, fromVar) ==
  LET cols == ColumnsOf(ed, toEntity)
      hits == {k \in 1..Len(cols) : cols[k].val.referencesVar = fromVar}
  IN  IF hits = {} THEN <<>>
      ELSE cols[CHOOSE k \in hits : \A h \in hits : k <= h].key

\* fk: the explicit field, else the discovered column
ForeignKey(ed, toEntity, fromVar, opts) ==
  IF opts.isObj /\ opts.fieldProp # <<>> THEN opts.fieldProp
  ELSE DiscoverForeignKey(ed, toEntity, fromVar)

\* entityData[ent]?.columns?.[fk]?.name (<<>>: undefined)
PhysicalName(ed, ent, fk) ==
  IF ObjHas(ColumnsOf(ed, ent), fk) THEN ObjGet(ColumnsOf(ed, ent), fk).name ELSE <<>>

\* relation.joinColumnName (<<>>: left unset)
JoinColumnName(ed, fromEntity, toEntity, fk) ==
  IF fk = <<>> THEN <<>>
  ELSE IF PhysicalName(ed, fromEntity, fk) # <<>> THEN PhysicalName(ed, fromEntity, fk)
  ELSE IF PhysicalName(ed, toEntity, fk) # <<>> THEN PhysicalName(ed, toEntity, fk)
  ELSE toSnake(fk)

\* the column whose onDelete / onUpdate / cascade the relation inherits:
\* entityData[relation.fromEntity]?.columns?.[fk]
InheritedColumn(ed, fromEntity, fk) ==
  IF ObjHas(ColumnsOf(ed, fromEntity), fk) THEN ObjGet(ColumnsOf(ed, fromEntity), fk)
  ELSE NewCol

\* the stub pushed for one property of a relations(fromVar, ...) call
RelationStub(ed, v2e, fromVar, p) ==
  LET fromEntity == EntityOfVar(v2e, fromVar)
      toEntity == IF EntityOfVar(v2e, p.targVar) \notin {Undefined, <<>>}
                  THEN EntityOfVar(v2e, p.targVar) ELSE pascal(p.targVar)
      fk == ForeignKey(ed, toEntity, fromVar, p.opts)
      col == InheritedColumn(ed, fromEntity, fk)
      ownDelete == IF p.opts.isObj THEN p.opts.onDelete ELSE ""
      ownUpdate == IF p.opts.isObj THEN p.opts.onUpdate ELSE ""
      ownCascade == p.opts.isObj /\ p.opts.cascade
  IN  [fromEntity |-> fromEntity, fromVar |-> fromVar, localName |-> p.localName,
       toEntity |-> toEntity, toVar |-> p.targVar,
       relType |-> InitialRelType(p.kind, p.opts),
       inverseSide |-> "", origKind |-> p.kind,
       customName |-> IF p.opts.isObj THEN p.opts.relationName ELSE "",
       onDelete |-> IF ownDelete # "" THEN ownDelete ELSE col.onDelete,
       onUpdate |-> IF ownUpdate # "" THEN ownUpdate ELSE col.onUpdate,
       cascade |-> ownCascade \/ col.cascade,
       joinColumnName |-> JoinColumnName(ed, fromEntity, toEntity, fk),
       isOwner |-> FALSE]

\* the stubs of one relations(...) call; a property whose call has no
\* identifier as first argument (targVar undefined) is skipped
StubsOf(ed, v2e, d) ==
  LET ps == SelectSeq(d.props, LAMBDA p : p.targVar # <<>>)
  IN  [k \in 1..Len(ps) |-> RelationStub(ed, v2e, d.fromVar, ps[k])]

\* one relations declaration of the second traversal
CollectRelations ==
  /\ pc = "extract"
  /\ i <= Len(Decls)
  /\ Decls[i].decl.kind = "relations"
  /\ relationStubs' = relationStubs \o StubsOf(entityData, var2entity, Decls[i].decl)
  /\ pairOf' = [k \in 1..Len(relationStubs') |-> 0]
  /\ i' = i + 1
  /\ pc' = AfterExtract(i)
  /\ ri' = 1
  /\ UNCHANGED <<files, var2entity, entity2file, entityData, ei,
                 fileOutputMap, filesOutput>>

(***************************************************************************)
(* The relation resolver                                                   *)
(***************************************************************************)
\* relationStubs.find(x => x.fromEntity === r1.toEntity &&
\*                         x.toEntity === r1.fromEntity && !x.inverseSide):
\* the index of the first match, 0 when there is none
FindInverse(stubs, r1) ==
  LET hits == {k \in 1..Len(stubs) :
                 /\ stubs[k].fromEntity = r1.toEntity
                 /\ stubs[k].toEntity = r1.fromEntity
                 /\ stubs[k].inverseSide = ""}
  IN  IF hits = {} THEN 0 ELSE CHOOSE k \in hits : \A h \in hits : k <= h

\* the body of `if (r2) {...}` for r1 = stubs[a], r2 = stubs[b], assignment
\* by assignment (a and b may be the same object)
PairStubs(stubs, a, b) ==
  LET s1 == [stubs EXCEPT ![a].inverseSide = stubs[b].localName]
      s2 == [s1 EXCEPT ![b].inverseSide = s1[a].localName]
  IN  IF s2[a].origKind = "many" /\ s2[b].origKind = "many"
      THEN LET s3 == [s2 EXCEPT ![b].relType = "many-to-many"]
               s4 == [s3 EXCEPT ![a].relType = "many-to-many"]
           IN  [s4 EXCEPT ![a].isOwner = TRUE]
      ELSE IF s2[a].origKind = "one" /\ s2[b].origKind = "one"
      THEN LET s3 == [s2 EXCEPT ![b].relType = "one-to-one"]
               s4 == [s3 EXCEPT ![a].relType = "one-to-one"]
           IN  IF s4[a].joinColumnName # <<>> THEN [s4 EXCEPT ![a].isOwner = TRUE]
               ELSE IF s4[b].joinColumnName # <<>> THEN [s4 EXCEPT ![b].isOwner = TRUE]
               ELSE s4
      ELSE s2

\* one iteration of relationStubs.forEach(r1 => ...)
ResolveStep ==
  /\ pc = "resolve"
  /\ ri <= Len(relationStubs)
  /\ LET r1 == relationStubs[ri]
         b == FindInverse(relationStubs, r1)
     IN  IF r1.inverseSide # "" \/ b = 0
         THEN UNCHANGED <<relationStubs, pairOf>>
         ELSE /\ relationStubs' = PairStubs(relationStubs, ri, b)
              /\ pairOf' = [[pairOf EXCEPT ![ri] = b] EXCEPT ![b] = ri]
  /\ ri' = ri + 1
  /\ UNCHANGED <<files, pc, i, var2entity, entity2file, entityData, ei,
                 fileOutputMap, filesOutput>>

RECURSIVE AppendRelations(_, _)
\* relationStubs.forEach(r => ...): push r onto its entity's relations unless
\* a relation of that local name is there; stops at the first stub whose
\* fromEntity has no entityData entry (where the code raises)
AppendRelations(ed, stubs) ==
  IF stubs = <<>> \/ ~ObjHas(ed, Head(stubs).fromEntity) THEN ed
  ELSE LET e == ObjGet(ed, Head(stubs).fromEntity)
           dup == \E k \in 1..Len(e.relations) :
                    e.relations[k].localName = Head(stubs).localName
       IN  AppendRelations(
             IF dup THEN ed
             ELSE ObjPut(ed, Head(stubs).fromEntity,
                         [e EXCEPT !.relations = Append(@, Head(stubs))]),
             Tail(stubs))

\* entityData[r.fromEntity].relations raises a TypeError for some stub
AppendThrows(ed, stubs) ==
  \E k \in 1..Len(stubs) : ~ObjHas(ed, stubs[k].fromEntity)

\* the loop that appends the resolved relations to their entities
AppendStubs ==
  /\ pc = "resolve"
  /\ ri > Len(relationStubs)
  /\ entityData' = AppendRelations(entityData, relationStubs)
  /\ pc' = IF AppendThrows(entityData, relationStubs) THEN "error" ELSE "emit"
  /\ ei' = 1
  /\ UNCHANGED <<files, i, var2entity, entity2file, relationStubs, ri, pairOf,
                 fileOutputMap, filesOutput>>

(***************************************************************************)
(* The emitter                                                             *)
(*                                                                          *)
(* A rendered block is kept as the sequence of the keys of its lines (and   *)
(* the values the claims read), in the order the lines are pushed.          *)
(***************************************************************************)
ORDER == <<"type", "enum", "precision", "scale", "length", "name", "array",
           "primary", "generated", "unique", "nullable", "default",
           "createDate", "updateDate">>

\* whether the ORDER loop pushes a line for field k of column cfg:
\* cfg[k] !== undefined, length suppressed for an enum, and printColumnField
\* returning "" for an enum list on a column whose type is not "enum"
FieldPrinted(k, cfg) ==
  CASE k = "type" -> TRUE
    [] k = "enum" -> cfg.hasEnum /\ cfg.type = "enum"
    [] k = "precision" -> cfg.precision # -1
    [] k = "scale" -> cfg.scale # -1
    [] k = "length" -> cfg.length # -1 /\ cfg.type # "enum"
    [] k = "name" -> cfg.name # <<>>
    [] k = "array" -> cfg.array
    [] k = "primary" -> cfg.primary
    [] k = "generated" -> cfg.generated # ""
    [] k = "unique" -> cfg.unique
    [] k = "nullable" -> TRUE
    [] k = "default" -> cfg.default.t # "undefined"
    [] k = "createDate" -> cfg.createDate
    [] k = "updateDate" -> cfg.updateDate

\* the lines of one column block
PrintColumn(key, cfg) ==
  [key |-> key, name |-> cfg.name,
   fields |-> SelectSeq(ORDER, LAMBDA k : FieldPrinted(k, cfg))]

\* printRelation: the keys of the lines pushed for relation r
printRelation(r) ==
  [localName |-> r.localName,
   relType |-> r.relType,
   joinColumnName |-> r.joinColumnName,
   isOwner |-> r.isOwner,
   lines |->
     <<"target", "type">>
     \o (IF r.inverseSide # "" THEN <<"inverseSide">> ELSE <<>>)
     \o (IF r.relType # "one-to-many" /\ r.joinColumnName # <<>>
         THEN <<"joinColumn">> ELSE <<>>)
     \o (IF r.relType = "many-to-many" /\ r.isOwner THEN <<"joinTable">> ELSE <<>>)
     \o (IF r.relType \in {"many-to-one", "one-to-one"}
         THEN (IF r.onDelete # "" THEN <<"onDelete">> ELSE <<>>)
              \o (IF r.onUpdate # "" THEN <<"onUpdate">> ELSE <<>>)
         ELSE <<>>)
     \o (IF r.cascade THEN <<"cascade">> ELSE <<>>)]

\* the rendered EntitySchema of one entityData entry
PrintEntity(entity, data) ==
  [entity |-> entity,
   tableName |-> data.tableName,
   columns |-> [k \in 1..Len(data.columns) |->
                  PrintColumn(data.columns[k].key, data.columns[k].val)],
   relations |-> [k \in 1..Len(data.relations) |-> printRelation(data.relations[k])],
   indices |-> data.indices]

\* one iteration of Object.entries(entityData).forEach: render the entity and
\* push it onto fileOutputMap[entity2file[entity]]
EmitEntity ==
  /\ pc = "emit"
  /\ ei <= Len(entityData)
  /\ LET entity == entityData[ei].key
         tsFile == ObjGet(entity2file, entity)
         sofar == IF ObjHas(fileOutputMap, tsFile) THEN ObjGet(fileOutputMap, tsFile)
                  ELSE <<>>
     IN  fileOutputMap' =
           ObjPut(fileOutputMap, tsFile,
                  Append(sofar, PrintEntity(entity, entityData[ei].val)))
  /\ ei' = ei + 1
  /\ UNCHANGED <<files, pc, i, var2entity, entity2file, entityData, relationStubs,
                 ri, pairOf, filesOutput>>

\* tsFile.replace(/\.ts$/, ".js")
ReplaceExtension(f) ==
  IF Len(f) >= 3 /\ SubSeq(f, Len(f) - 2, Len(f)) = <<".", "t", "s">>
  THEN SubSeq(f, 1, Len(f) - 3) \o <<".", "j", "s">>
  ELSE f

\* s.includes(`name: '${entity}'`): the schema's own name line, a column's
\* physical-name line, a joinColumn line or an index line carries the text
SchemaIncludesName(schema, entity) ==
  \/ schema.entity = entity
  \/ \E k \in 1..Len(schema.columns) :
       schema.columns[k].name = entity /\ entity # <<>>
  \/ \E k \in 1..Len(schema.relations) :
       /\ "joinColumn" \in {schema.relations[k].lines[n] :
                              n \in 1..Len(schema.relations[k].lines)}
       /\ schema.relations[k].joinColumnName = entity
  \/ \E k \in 1..Len(schema.indices) : schema.indices[k].name = entity

\* the @typedef comments of one output file: the entities, in entityData
\* order, whose name line some schema of the file includes
Typedefs(ed, schemas) ==
  LET listed == SelectSeq(ed, LAMBDA e :
                  \E k \in 1..Len(schemas) : SchemaIncludesName(schemas[k], e.key))
  IN  [k \in 1..Len(listed) |->
         [entity |-> listed[k].key,
          properties |-> [n \in 1..Len(listed[k].val.columns) |->
                            listed[k].val.columns[n].key]]]

RECURSIVE GroupFiles(_, _, _)
\* for (const [tsFile, schemas] of Object.entries(fileOutputMap)) ...
GroupFiles(out, fom, ed) ==
  IF fom = <<>> THEN out
  ELSE GroupFiles(
         ObjPut(out, ReplaceExtension(Head(fom).key),
                [typedefs |-> Typedefs(ed, Head(fom).val), schemas |-> Head(fom).val]),
         Tail(fom), ed)

\* the grouping loop and the return
GroupByFile ==
  /\ pc = "emit"
  /\ ei > Len(entityData)
  /\ filesOutput' = GroupFiles(<<>>, fileOutputMap, entityData)
  /\ pc' = "done"
  /\ UNCHANGED <<files, i, var2entity, entity2file, entityData, relationStubs,
                 ri, pairOf, ei, fileOutputMap>>

Next ==
  \/ RegistryStep
  \/ ExtractTable
  \/ CollectRelations
  \/ ResolveStep
  \/ AppendStubs
  \/ EmitEntity
  \/ GroupByFile

\* the state convertSchemas starts in, for the input fs
Start(fs) ==
  /\ files = fs
  /\ pc = IF Flatten(fs) = <<>> THEN "resolve" ELSE "registry"
  /\ i = 1
  /\ var2entity = <<>>
  /\ entity2file = <<>>
  /\ entityData = <<>>
  /\ relationStubs = <<>>
  /\ ri = 1
  /\ pairOf = <<>>
  /\ ei = 1
  /\ fileOutputMap = <<>>
  /\ filesOutput = <<>>

(***************************************************************************)
(* Inputs                                                                  *)
(*                                                                          *)
(* Two table variables, u and p, and a variable g that names no table.      *)
(***************************************************************************)
U == <<"u">>

P == <<"p">>

G == <<"g">>

Id == <<"i", "d">>

UId == <<"u", "I", "d">>

FileA == <<"a", ".", "t", "s">>

FileB == <<"b", ".", "t", "s">>

Mod(method) == [method |-> method, arg |-> NoArg, opts |-> NoRefOpts]

\* .method(arg)
ModArg(method, arg) == [method |-> method, arg |-> arg, opts |-> NoRefOpts]

\* builder(nameArg).m1().m2()...
Chain(builder, nameArg, mods) ==
  [shape |-> "chain", rootCall |-> TRUE, builder |-> builder, nameArg |-> nameArg,
   opts |-> [isObj |-> FALSE, props |-> <<>>], mods |-> mods]

\* .references(() => v.id, {onDelete, cascade})
References(v, onDelete, cascade) ==
  [method |-> "references", arg |-> ArrowArg(v),
   opts |-> [NoRefOpts EXCEPT !.isObj = TRUE, !.onDelete = onDelete, !.cascade = cascade]]

Table(var, name, cols, extras) ==
  [kind |-> "table", var |-> var, tblArg |-> name, cols |-> cols, extras |-> extras]

\* id: uuid("id").primaryKey().defaultRandom()
IdColumn ==
  [key |-> Id, init |-> Chain("uuid", StrArg(Id), <<Mod("primaryKey"), Mod("defaultRandom")>>)]

\* uId: integer("u_id").notNull().references(() => u.id, {onDelete: "cascade"})
ForeignKeyColumn ==
  [key |-> UId,
   init |-> Chain("integer", StrArg(<<"u", "_", "i", "d">>),
                  <<Mod("notNull"), References(U, "cascade", FALSE)>>)]

\* uId: integer("x").references(() => g.id, {onDelete: "restrict", cascade: true}):
\* a column of u that has the property name of p's foreign key
NamesakeColumn ==
  [key |-> UId,
   init |-> Chain("integer", StrArg(<<"x">>), <<References(G, "restrict", TRUE)>>)]

\* the table layouts: p without a foreign key, p referencing u, and the
\* latter with a namesake column in u
TableLayouts ==
  { << Table(U, StrLit(U), <<IdColumn>>, NoExtras),
       Table(P, StrLit(P), <<IdColumn>>, NoExtras) >>,
    << Table(U, StrLit(U), <<IdColumn>>, NoExtras),
       Table(P, StrLit(P), <<IdColumn, ForeignKeyColumn>>, NoExtras) >>,
    << Table(U, StrLit(U), <<IdColumn, NamesakeColumn>>, NoExtras),
       Table(P, StrLit(P), <<IdColumn, ForeignKeyColumn>>, NoExtras) >> }

\* the relation declarations tried: many(t), many(t, {cascade: true}), one(t),
\* one(t, {fields: [f.uId]}), oneToOne(t) and an unrecognised marker
RelationForms == {"many", "manyCascade", "one", "oneFields", "oneToOne", "belongsTo"}

\* the property  localName: form(targVar ...);  the form "noTarget" is a call
\* whose first argument is no identifier
RelProp(localName, form, targVar) ==
  [localName |-> localName,
   kind |-> IF form = "oneFields" THEN "one"
            ELSE IF form \in {"manyCascade", "noTarget"} THEN "many" ELSE form,
   targVar |-> IF form = "noTarget" THEN <<>> ELSE targVar,
   opts |-> IF form = "oneFields"
            THEN [NoOpts EXCEPT !.isObj = TRUE, !.fields = "array", !.fieldProp = UId]
            ELSE IF form = "manyCascade"
            THEN [NoOpts EXCEPT !.isObj = TRUE, !.cascade = TRUE]
            ELSE NoOpts]

\* the most relation properties of an input
MaxStubs == 2

LocalNames == <<"r1", "r2", "r3", "r4">>

\* the sequences of at most n choices [from, form, to]
RelChoices(vs, forms) == [from : vs, form : forms, to : vs]

ChoiceLists(vs, forms, n) == UNION {[1..k -> RelChoices(vs, forms)] : k \in 0..n}

\* one relations(from, ...) declaration per choice, the k-th named LocalNames[k]
RelationDecls(cs) ==
  [k \in 1..Len(cs) |->
     [kind |-> "relations", fromVar |-> cs[k].from,
      props |-> <<RelProp(LocalNames[k], cs[k].form, cs[k].to)>>]]

RECURSIVE MergeDecls(_)
\* adjacent relations(...) declarations of one variable written as one call
\* with several properties
MergeDecls(ds) ==
  IF Len(ds) < 2 THEN ds
  ELSE IF ds[1].fromVar = ds[2].fromVar
       THEN MergeDecls(<<[ds[1] EXCEPT !.props = @ \o ds[2].props]>> \o SubSeq(ds, 3, Len(ds)))
       ELSE <<ds[1]>> \o MergeDecls(Tail(ds))

\* one file: the tables first, then the relation declarations
ResolverInput(tables, cs) ==
  << [fileName |-> FileA, decls |-> tables \o MergeDecls(RelationDecls(cs))] >>

Init ==
  \E tables \in TableLayouts :
    \E cs \in ChoiceLists({U, P}, RelationForms, MaxStubs) :
      Start(ResolverInput(tables, cs))

Spec == Init /\ [][Next]_vars

(***************************************************************************)
(* Properties of the relation resolver and of printRelation                *)
(***************************************************************************)
Stubs == 1..Len(relationStubs)

\* the pairs the resolver made between two distinct stubs
Pairs == {<<a, b>> \in Stubs \X Stubs : a < b /\ pairOf[a] = b}

\* C1: relation pairing is mutual and between two distinct stubs: every stub
\* with an inverseSide was paired with exactly one OTHER stub, whose
\* (fromEntity, toEntity) is the reverse of its own, each holds the other's
\* localName as inverseSide, and no later pairing replaced its partner.
PairingIsMutual ==
  \A a \in Stubs :
    relationStubs[a].inverseSide # "" =>
      /\ pairOf[a] \in Stubs \ {a}
      /\ pairOf[pairOf[a]] = a
      /\ relationStubs[pairOf[a]].fromEntity = relationStubs[a].toEntity
      /\ relationStubs[pairOf[a]].toEntity = relationStubs[a].fromEntity
      /\ relationStubs[a].inverseSide = relationStubs[pairOf[a]].localName
      /\ relationStubs[pairOf[a]].inverseSide = relationStubs[a].localName

\* declared with a singular kind
Singular(r) == r.origKind \in {"one", "oneToOne"}

\* declared with the to-many kind
ToMany(r) == r.origKind = "many"

\* C2: in the final model a paired stub is many-to-many only if both stubs of
\* its pair were declared to-many, one-to-one only if both were declared
\* singular, and in every other pair the singular side is many-to-one.
CardinalityOfPairs ==
  pc = "done" =>
    \A a \in Stubs :
      pairOf[a] # 0 =>
        LET r == relationStubs[a]
            q == relationStubs[pairOf[a]]
        IN  /\ r.relType = "many-to-many" => ToMany(r) /\ ToMany(q)
            /\ r.relType = "one-to-one" => Singular(r) /\ Singular(q)
            /\ (Singular(r) /\ ~Singular(q)) => r.relType = "many-to-one"

\* C3: in the final model, of the two stubs of a pair resolved as one-to-one
\* or many-to-many exactly one is the owner, or neither is and no join column
\* was resolved on either side.
OwnershipOfPairs ==
  pc = "done" =>
    \A pr \in Pairs :
      LET r == relationStubs[pr[1]]
          q == relationStubs[pr[2]]
      IN  (r.relType \in {"one-to-one", "many-to-many"} /\ q.relType = r.relType) =>
            \/ r.isOwner # q.isOwner
            \/ /\ ~r.isOwner /\ ~q.isOwner
               /\ r.joinColumnName = <<>> /\ q.joinColumnName = <<>>

\* the relation blocks rendered so far
RenderedRelations ==
  UNION { UNION { {fileOutputMap[f].val[n].relations[k] :
                     k \in 1..Len(fileOutputMap[f].val[n].relations)} :
                  n \in 1..Len(fileOutputMap[f].val) } :
          f \in 1..Len(fileOutputMap) }

HasLine(rr, key) == \E n \in 1..Len(rr.lines) : rr.lines[n] = key

\* C10: a rendered relation carries a joinColumn, cascade, onDelete
\* or onUpdate line only when it is many-to-one or one-to-one, and a joinTable
\* line only when it is a many-to-many owner.
GatingAsStated ==
  \A rr \in RenderedRelations :
    /\ (\E key \in {"joinColumn", "cascade", "onDelete", "onUpdate"} : HasLine(rr, key))
         => rr.relType \in {"many-to-one", "one-to-one"}
    /\ HasLine(rr, "joinTable") => rr.relType = "many-to-many" /\ rr.isOwner


(***************************************************************************)
(* Inputs that vary the order of the declarations and the file boundary    *)
(***************************************************************************)
\* x: t.varchar("x").notNull() : a chain whose root is the identifier t
NamespaceColumn ==
  [key |-> <<"x">>,
   init |-> [Chain("", NoArg, <<Mod("varchar"), Mod("notNull")>>) EXCEPT !.rootCall = FALSE]]

\* p referencing u, and the same with a namespace-rooted column in u
OrderLayouts ==
  { << Table(U, StrLit(U), <<IdColumn>>, NoExtras),
       Table(P, StrLit(P), <<IdColumn, ForeignKeyColumn>>, NoExtras) >>,
    << Table(U, StrLit(U), <<IdColumn, NamespaceColumn>>, NoExtras),
       Table(P, StrLit(P), <<IdColumn, ForeignKeyColumn>>, NoExtras) >> }

OrderForms == {"many", "oneFields", "noTarget"}

\* the most relation declarations of an order-varying input
MaxOrderStubs == 2

\* the tables placed at the positions `at` (in their order), the relation
\* declarations in the other positions (in theirs)
Interleave(tables, rels, at) ==
  [k \in 1..(Len(tables) + Len(rels)) |->
     IF k \in at THEN tables[Cardinality({j \in at : j <= k})]
     ELSE rels[k - Cardinality({j \in at : j < k})]]

\* the ways to place n tables among n + m declarations
Placements(n, m) == {x \in SUBSET (1..(n + m)) : Cardinality(x) = n}

\* the declarations cut into two files after the j-th, or in one file when
\* j is their number
Cut(ds, j) ==
  IF j = Len(ds) THEN << [fileName |-> FileA, decls |-> ds] >>
  ELSE << [fileName |-> FileA, decls |-> SubSeq(ds, 1, j)],
          [fileName |-> FileB, decls |-> SubSeq(ds, j + 1, Len(ds))] >>

InitOrder ==
  \E tables \in OrderLayouts :
    \E cs \in ChoiceLists({U, P, G}, OrderForms, MaxOrderStubs) :
      \E at \in Placements(Len(tables), Len(cs)) :
        \E j \in 1..(Len(tables) + Len(cs)) :
          Start(Cut(Interleave(tables, RelationDecls(cs), at), j))

SpecOrder == InitOrder /\ [][Next]_vars

RECURSIVE StubsGiven(_, _, _)
\* the stubs the relation declarations ds yield against the entity data ed
StubsGiven(ed, v2e, ds) ==
  IF ds = <<>> THEN <<>>
  ELSE (IF Head(ds).decl.kind = "relations" THEN StubsOf(ed, v2e, Head(ds).decl) ELSE <<>>)
       \o StubsGiven(ed, v2e, Tail(ds))

\* C4: relation collection sees the columns of every entity of every file: the
\* join column of every stub is the one its declaration yields against the
\* complete entity data, wherever the declaration stands among the tables.
CollectionAfterAllTables ==
  pc \in {"resolve", "emit", "done"} =>
    \A k \in Stubs :
      relationStubs[k].joinColumnName =
        StubsGiven(entityData, var2entity, Decls)[k].joinColumnName

\* C7: the conversion never raises on input that parses.
NeverRaises == pc # "error"

(***************************************************************************)
(* Inputs that vary one column's builder chain and the table extras        *)
(***************************************************************************)
X == <<"x">>

Y == <<"y">>

Ix == <<"i", "x">>

\* the modifiers tried in a chain
ModPool ==
  { Mod("notNull"), Mod("primaryKey"), Mod("unique"), Mod("default"),
    ModArg("default", NumArg(7)), Mod("defaultRandom"), Mod("defaultNow"),
    References(U, "cascade", FALSE), Mod("$type") }

\* the most modifiers of a varied chain
MaxMods == 2

ModLists == UNION {[1..k -> ModPool] : k \in 0..MaxMods}

\* the root calls tried: varchar("x"), varchar("col", {length: 7}),
\* money("x"), timestamp("x", {withTimezone: true}),
\* text("x", {enum: ["u", "p"], length: 7}) and a call whose callee is no
\* identifier
RootPool ==
  { Chain("varchar", StrArg(X), <<>>),
    [Chain("varchar", StrArg(<<"c">>), <<>>) EXCEPT
       !.opts = [isObj |-> TRUE,
                 props |-> <<[k |-> "length", v |-> [kind |-> "num", num |-> 7, elems |-> <<>>]]>>]],
    Chain("money", StrArg(X), <<>>),
    [Chain("timestamp", StrArg(X), <<>>) EXCEPT
       !.opts = [isObj |-> TRUE,
                 props |-> <<[k |-> "withTimezone", v |-> [kind |-> "true", num |-> 0, elems |-> <<>>]]>>]],
    [Chain("text", StrArg(X), <<>>) EXCEPT
       !.opts = [isObj |-> TRUE,
                 props |-> <<[k |-> "enum", v |-> [kind |-> "arr", num |-> 0, elems |-> <<U, P>>]],
                             [k |-> "length", v |-> [kind |-> "num", num |-> 7, elems |-> <<>>]]>>]],
    Chain("", NoArg, <<>>) }

\* timestamp("x").array().$onUpdate(...).default(sql`current_timestamp`)
LongChain ==
  Chain("timestamp", StrArg(X),
        <<Mod("array"), ModArg("$onUpdate", OtherArg),
          ModArg("default", SqlArg("current_timestamp"))>>)

\* the initializers tried for the varied column
ColumnInits ==
  { [root EXCEPT !.mods = mods] : root \in RootPool, mods \in ModLists }
  \cup { LongChain, [Chain("", NoArg, <<>>) EXCEPT !.shape = "other"] }

\* the property names tried for the varied column
ColumnKeys == {X, CreatedAt, UpdatedAt}

Extra(marker, name, cols) == [marker |-> marker, name |-> name, cols |-> cols]

\* the third argument of pgTable tried: none; (t) => [primaryKey({columns:
\* [t.x, t.y]})]; (t) => [uniqueIndex("ix").on(t.x).on(t.y)];
\* (t) => [index("ix").on(t.y), primaryKey({columns: [t.x]})]
ExtrasPool ==
  { NoExtras,
    [isArrowArray |-> TRUE, elems |-> <<Extra("primaryKey", <<>>, <<X, Y>>)>>],
    [isArrowArray |-> TRUE, elems |-> <<Extra("uniqueIndex", Ix, <<X, Y>>)>>],
    [isArrowArray |-> TRUE,
     elems |-> <<Extra("index", Ix, <<Y>>), Extra("primaryKey", <<>>, <<X>>)>>] }

\* y: integer("y")
YColumn == [key |-> Y, init |-> Chain("integer", StrArg(Y), <<>>)]

\* one file: table u with the varied column and y, table p, and
\* relations(u, () => ({r1: many(p)}))
TableInput(key, init, extras) ==
  << [fileName |-> FileA,
      decls |-> << Table(U, StrLit(U), <<[key |-> key, init |-> init], YColumn>>, extras),
                   Table(P, StrLit(P), <<IdColumn, ForeignKeyColumn>>, NoExtras),
                   [kind |-> "relations", fromVar |-> U,
                    props |-> <<RelProp("r1", "many", P)>>] >>] >>

InitTable ==
  \E key \in ColumnKeys :
    \E init \in ColumnInits :
      \E extras \in ExtrasPool :
        Start(TableInput(key, init, extras))

SpecTable == InitTable /\ [][Next]_vars

(***************************************************************************)
(* Properties of the table branch                                          *)
(***************************************************************************)
\* the positions of the table declarations that resolve to entity ent
DeclsOf(ent) ==
  {k \in 1..Len(Decls) :
     Decls[k].decl.kind = "table" /\ EntityOfDecl(var2entity, Decls[k].decl) = ent}

\* the declaration that registered ent: the first processed
FirstDeclOf(ent) == Decls[CHOOSE k \in DeclsOf(ent) : \A h \in DeclsOf(ent) : k <= h].decl

\* marker(name).on(c1)...on(cn) read as the claim reads it
IndexAsDeclared(e) ==
  [name |-> e.name, columns |-> e.cols, unique |-> e.marker = "uniqueIndex"]

RECURSIVE IndicesAsDeclared(_, _)
\* the index entries of the declarations ds that resolve to ent, as declared
IndicesAsDeclared(ds, ent) ==
  IF ds = <<>> THEN <<>>
  ELSE LET d == Head(ds).decl
           mine == d.kind = "table" /\ EntityOfDecl(var2entity, d) = ent
                   /\ d.extras.isArrowArray
           es == IF mine
                 THEN SelectSeq(d.extras.elems,
                                LAMBDA e : e.marker \in {"index", "uniqueIndex"})
                 ELSE <<>>
       IN  [k \in 1..Len(es) |-> IndexAsDeclared(es[k])] \o IndicesAsDeclared(Tail(ds), ent)

\* C5: an index entry marker(name).on(c1)...on(cn) is stored as {name,
\* columns: [c1, ..., cn], unique} with the columns in source order and
\* unique true exactly for the unique-index marker.
IndexColumnOrder ==
  pc = "done" =>
    \A k \in 1..Len(entityData) :
      entityData[k].val.indices = IndicesAsDeclared(Decls, entityData[k].key)

HasModifier(init, method) ==
  init.shape = "chain" /\ \E n \in 1..Len(init.mods) : init.mods[n].method = method

\* a primaryKey({columns: [...]}) entry of d names the column key
InCompositeKey(d, key) ==
  d.extras.isArrowArray
  /\ \E n \in 1..Len(d.extras.elems) :
       /\ d.extras.elems[n].marker = "primaryKey"
       /\ \E m \in 1..Len(d.extras.elems[n].cols) : d.extras.elems[n].cols[m] = key

\* a not-null modifier, a primary-key modifier or a composite primary-key
\* entry was applied to column c of declaration d
MadeNotNull(d, c) ==
  \/ HasModifier(c.init, "notNull")
  \/ HasModifier(c.init, "primaryKey")
  \/ InCompositeKey(d, c.key)

\* C8: in the final entity model every column to which a not-null modifier, a
\* primary-key modifier or a composite primary-key entry was applied has
\* nullable = false, and so has every column with primary = true.
NullabilityInvariant ==
  pc = "done" =>
    \A k \in 1..Len(entityData) :
      LET d == FirstDeclOf(entityData[k].key)
          columns == entityData[k].val.columns
      IN  /\ \A n \in 1..Len(d.cols) :
               MadeNotNull(d, d.cols[n]) => ~ObjGet(columns, d.cols[n].key).nullable
          /\ \A n \in 1..Len(columns) :
               columns[n].val.primary => ~columns[n].val.nullable

\* a finished run in which one column got notNull() before another modifier,
\* and a column without modifiers was named by a composite primary key
NullabilityWitness ==
  /\ pc = "done"
  /\ \E k \in 1..Len(entityData) :
       LET d == FirstDeclOf(entityData[k].key)
       IN  /\ \E n \in 1..Len(d.cols) :
                /\ d.cols[n].init.shape = "chain"
                /\ Len(d.cols[n].init.mods) = 2
                /\ d.cols[n].init.mods[1].method = "notNull"
                /\ d.cols[n].init.mods[2].method = "default"
                /\ ~ObjGet(entityData[k].val.columns, d.cols[n].key).nullable
           /\ \E n \in 1..Len(d.cols) :
                /\ d.cols[n].init.shape = "chain"
                /\ d.cols[n].init.mods = <<>>
                /\ InCompositeKey(d, d.cols[n].key)
                /\ ObjGet(entityData[k].val.columns, d.cols[n].key).primary
                /\ ~ObjGet(entityData[k].val.columns, d.cols[n].key).nullable

(***************************************************************************)
(* Inputs that vary the table declarations and the files they stand in     *)
(***************************************************************************)
FileC == <<"c", ".", "t", "s">>

\* x: varchar("x").notNull()
XColumn == [key |-> X, init |-> Chain("varchar", StrArg(X), <<Mod("notNull")>>)]

\* the variable and first argument of the table declarations tried:
\* u = pgTable("u"), p = pgTable("p_x"), p = pgTable("u"), u = pgTable(name),
\* u = pgTable("p_x"), p = pgTable("1")
TableHeads ==
  { [var |-> U, tblArg |-> StrLit(U)],
    [var |-> P, tblArg |-> StrLit(<<"p", "_", "x">>)],
    [var |-> P, tblArg |-> StrLit(U)],
    [var |-> U, tblArg |-> NotStr],
    [var |-> U, tblArg |-> StrLit(<<"p", "_", "x">>)],
    [var |-> P, tblArg |-> StrLit(<<"1">>)] }

\* the bodies tried: {id}, and {x, y} with
\* (t) => [primaryKey({columns: [t.x]}), index("ix").on(t.y)]
TableBodies ==
  { [cols |-> <<IdColumn>>, extras |-> NoExtras],
    [cols |-> <<XColumn, YColumn>>,
     extras |-> [isArrowArray |-> TRUE,
                 elems |-> <<Extra("primaryKey", <<>>, <<X>>), Extra("index", Ix, <<Y>>)>>]] }

\* the most table declarations of such an input
MaxTables == 3

TableLists ==
  UNION {[1..k -> [head : TableHeads, body : TableBodies]] : k \in 1..MaxTables}

TableDecls(ts) ==
  [k \in 1..Len(ts) |->
     Table(ts[k].head.var, ts[k].head.tblArg, ts[k].body.cols, ts[k].body.extras)]

\* the tables in a.ts, or cut over a.ts and b.ts, and c.ts holding
\* relations(first, () => ({r1: many(last)}))
FilesInput(ts, j) ==
  Cut(TableDecls(ts), j)
  \o << [fileName |-> FileC,
         decls |-> << [kind |-> "relations", fromVar |-> ts[1].head.var,
                       props |-> <<RelProp("r1", "many", ts[Len(ts)].head.var)>>] >>] >>

InitFiles ==
  \E ts \in TableLists :
    \E j \in 1..Len(ts) :
      Start(FilesInput(ts, j))

SpecFiles == InitFiles /\ [][Next]_vars

(***************************************************************************)
(* Properties of the output map                                            *)
(***************************************************************************)
\* the input files that contain at least one table declaration
FilesWithTable ==
  {f \in 1..Len(files) :
     \E k \in 1..Len(files[f].decls) : files[f].decls[k].kind = "table"}

\* C6: the returned map has exactly one entry for each input file that
\* contains a table declaration and none for any other file, keyed by the
\* file name with its extension replaced.
OutputMapShape ==
  pc = "done" =>
    /\ {filesOutput[k].key : k \in 1..Len(filesOutput)}
         = {ReplaceExtension(files[f].fileName) : f \in FilesWithTable}
    /\ Len(filesOutput) = Cardinality(FilesWithTable)

\* the positions, among the declarations of file f, of the table
\* declarations that resolve to entity ent
PositionsIn(f, ent) ==
  {k \in 1..Len(files[f].decls) :
     /\ files[f].decls[k].kind = "table"
     /\ EntityOfDecl(var2entity, files[f].decls[k]) = ent}

First(ps) == CHOOSE k \in ps : \A h \in ps : k <= h

\* C9: in the output, the entities of a file appear in the order of their
\* declarations in that file, and the columns of an entity in the order of
\* its column properties.
DeclarationOrderPreserved ==
  pc = "done" =>
    \A k \in 1..Len(filesOutput) :
      \E f \in 1..Len(files) :
        /\ ReplaceExtension(files[f].fileName) = filesOutput[k].key
        /\ LET schemas == filesOutput[k].val.schemas
           IN  /\ \A n \in 1..Len(schemas) : PositionsIn(f, schemas[n].entity) # {}
               /\ \A m, n \in 1..Len(schemas) :
                    m < n => First(PositionsIn(f, schemas[m].entity))
                               < First(PositionsIn(f, schemas[n].entity))
               /\ \A n \in 1..Len(schemas) :
                    LET d == FirstDeclOf(schemas[n].entity)
                    IN  [c \in 1..Len(schemas[n].columns) |-> schemas[n].columns[c].key]
                          = [c \in 1..Len(d.cols) |-> d.cols[c].key]

(***************************************************************************)
(* Properties of the foreign-key attributes of a relation                  *)
(***************************************************************************)
\* the relation properties written in the input, with their owning variable
DeclaredProps ==
  UNION { {[fromVar |-> Decls[k].decl.fromVar, prop |-> Decls[k].decl.props[n]] :
             n \in 1..Len(Decls[k].decl.props)} :
          k \in {h \in 1..Len(Decls) : Decls[h].decl.kind = "relations"} }

\* the property that stub r was made from
PropOf(r) ==
  (CHOOSE dp \in DeclaredProps :
     dp.fromVar = r.fromVar /\ dp.prop.localName = r.localName).prop

\* the foreign key of r is given explicitly in fields
ExplicitField(r) == PropOf(r).opts.isObj /\ PropOf(r).opts.fieldProp # <<>>

\* the columns among which the foreign key of r was matched: those of the
\* owning entity for an explicit field, those of the target entity for a
\* discovered one
MatchedColumns(r) ==
  ColumnsOf(entityData, IF ExplicitField(r) THEN r.fromEntity ELSE r.toEntity)

\* the property name of the matched foreign key (<<>>: none)
MatchedKey(r) ==
  IF ExplicitField(r) THEN PropOf(r).opts.fieldProp
  ELSE DiscoverForeignKey(entityData, r.toEntity, r.fromVar)

\* C11: for every relation whose foreign key was matched, each of onDelete,
\* onUpdate and cascade that is not set on the relation call itself takes the
\* value of that same matched foreign-key column.
InheritsFromMatchedColumn ==
  \A k \in 1..Len(relationStubs) :
    LET r == relationStubs[k]
        o == PropOf(r).opts
    IN  (MatchedKey(r) # <<>> /\ ObjHas(MatchedColumns(r), MatchedKey(r))) =>
          LET col == ObjGet(MatchedColumns(r), MatchedKey(r))
          IN  /\ (~o.isObj \/ o.onDelete = "") => r.onDelete = col.onDelete
              /\ (~o.isObj \/ o.onUpdate = "") => r.onUpdate = col.onUpdate
              /\ (~o.isObj \/ ~o.cascade) => r.cascade = col.cascade

(***************************************************************************)
(* Properties of the order in which the modifiers of a chain are applied   *)
(***************************************************************************)
\* the positions, in source order, of the modifiers of chain init that write
\* the default field of the column named key
DefaultWriters(init, key) ==
  {n \in 1..Len(init.mods) :
     \/ init.mods[n].method = "default"
     \/ init.mods[n].method = "defaultNow" /\ key # CreatedAt}

\* the value modifier m writes to the default field
DefaultWritten(m) == IF m.method = "default" THEN DefaultValue(m.arg) ELSE BoolDefault(TRUE)

Last(ps) == CHOOSE k \in ps : \A h \in ps : h <= k

\* C12: when several modifiers of one chain write the same descriptor field,
\* the final descriptor holds the value written by the modifier that appears
\* later in the source chain (the modifiers are applied from the call next to
\* the root builder call outward).
LaterModifierWins ==
  pc = "done" =>
    \A k \in 1..Len(entityData) :
      LET d == FirstDeclOf(entityData[k].key)
      IN  \A n \in 1..Len(d.cols) :
            LET init == d.cols[n].init
                col == ObjGet(entityData[k].val.columns, d.cols[n].key)
                writers == DefaultWriters(init, d.cols[n].key)
            IN  init.shape = "chain" =>
                  /\ writers # {} => col.default = DefaultWritten(init.mods[Last(writers)])
                  /\ HasModifier(init, "defaultRandom") => col.type = "uuid"

(***************************************************************************)
(* Properties of duplicate table declarations                              *)
(***************************************************************************)
\* the index list declaration d gives an entity it registers
IndicesOfDecl(d) ==
  IF d.extras.isArrowArray THEN CollectIndices(d.extras.elems) ELSE <<>>

\* C13: when several table declarations resolve to the same entity, the final
\* entity's tableName, column map, primary-key flags and index list all come
\* from the first-processed declaration; a later declaration adds no column,
\* no primary flag and no index.
DuplicateDeclarationIgnored ==
  pc = "done" =>
    \A k \in 1..Len(entityData) :
      Cardinality(DeclsOf(entityData[k].key)) > 1 =>
        LET d == FirstDeclOf(entityData[k].key)
        IN  /\ entityData[k].val.tableName = d.tblArg
            /\ entityData[k].val.columns = TableColumns(d)
            /\ entityData[k].val.indices = IndicesOfDecl(d)

====
